---- MODULE Spec2Model ----
(***************************************************************************)
(* Model of the cumulative-incidence computation of dash1.py               *)
(* (update_cumulative_incidence_curve, lines 59-91) over the module-level   *)
(* table df, and of the survival-curve computation the specification        *)
(* describes (compute_survival_curve), which dash1.py does not contain.     *)
(*                                                                          *)
(* Python floats are modelled as exact non-negative rationals in lowest     *)
(* terms, [num, den]; a table is a sequence of rows [trt, time, infected].  *)
(***************************************************************************)
EXTENDS Integers, Sequences, FiniteSets, TLC

\* Bounds of the explored inputs.
MaxRows == 3
MaxTime == 3
MaxTrt == 1

VARIABLES
    df,                    \* the module-level table (dash1.py line 14)
    pc,                    \* position in the function being executed
    returned,              \* the figures returned by the last two calls
    fig,                   \* fig_cumulative_incidence_curve: sequence of traces
    groups,                \* the treatments the outer loop has still to visit
    treatment,
    treatment_data,
    sorted_times,
    cumulative_incidence,
    num_patients,
    cumulative_prob,
    ti,                    \* position of the inner loop in sorted_times
    P,                     \* running survival probability
    survival               \* output of compute_survival_curve

vars == <<df, pc, returned, fig, groups, treatment, treatment_data, sorted_times,
          cumulative_incidence, num_patients, cumulative_prob, ti, P, survival>>

----------------------------------------------------------------------------
\* Float arithmetic, as exact rationals in lowest terms.

RECURSIVE GCD(_, _)
GCD(a, b) == IF b = 0 THEN a ELSE GCD(b, a % b)

\* n / d for integers n >= 0, d > 0.
RatDiv(n, d) == LET g == GCD(n, d) IN [num |-> n \div g, den |-> d \div g]

RatAdd(a, b) == RatDiv(a.num * b.den + b.num * a.den, a.den * b.den)

\* a - b, for a >= b.
RatSub(a, b) == RatDiv(a.num * b.den - b.num * a.den, a.den * b.den)

RatMul(a, b) == RatDiv(a.num * b.num, a.den * b.den)

RatLeq(a, b) == a.num * b.den <= b.num * a.den

Zero == RatDiv(0, 1)
One == RatDiv(1, 1)

----------------------------------------------------------------------------
\* Tables and the pandas operations the function uses.

Treatments == 0..MaxTrt
Times == 1..MaxTime
Rows == [trt : Treatments, time : Times, infected : {0, 1}]
Tables == UNION {[1..n -> Rows] : n \in 0..MaxRows}

TrtColumn(d) == [i \in DOMAIN d |-> d[i].trt]
TimeColumn(d) == [i \in DOMAIN d |-> d[i].time]

\* The function reads treatments only through == and times only through >=
\* and sorted(), so one table stands for all those that differ from it by a
\* renaming of the treatments or an order-preserving change of the times: the
\* one whose treatments are numbered in order of first appearance and whose
\* times are 1..k.
Canonical(d) ==
    /\ LET ts == {d[i].time : i \in DOMAIN d} IN ts = 1..Cardinality(ts)
    /\ \A i \in DOMAIN d : d[i].trt <= Cardinality({d[j].trt : j \in 1..(i - 1)})

Inputs == {d \in Tables : Canonical(d)}

\* Series.unique(): the distinct values in order of first appearance.
RECURSIVE Unique(_)
Unique(s) ==
    IF s = <<>> THEN <<>>
    ELSE LET h == Head(s)
         IN <<h>> \o Unique(SelectSeq(Tail(s), LAMBDA v : v # h))

\* sorted(): ascending, keeping duplicates.
RECURSIVE Insert(_, _)
Insert(v, s) ==
    IF s = <<>> THEN <<v>>
    ELSE IF v <= Head(s) THEN <<v>> \o s
    ELSE <<Head(s)>> \o Insert(v, Tail(s))

RECURSIVE Sorted(_)
Sorted(s) == IF s = <<>> THEN <<>> ELSE Insert(Head(s), Sorted(Tail(s)))

\* A mutant of TrtUnique: every treatment of treatment_names is visited.
TrtAllNames(d) == [i \in 1..(MaxTrt + 1) |-> i - 1]

\* df['trt'].unique()
TrtUnique(d) == Unique(TrtColumn(d))

\* A mutant of FilterTrt: the filter is dropped.
FilterTrtNone(d, g) == d

\* df[df['trt'] == treatment]
FilterTrt(d, g) == SelectSeq(d, LAMBDA r : r.trt = g)

\* A mutant of SortedTimes: unique() is dropped.
SortedTimesDup(data) == Sorted(TimeColumn(data))

\* A mutant of SortedTimes: sorted() is dropped.
SortedTimesUnsorted(data) == Unique(TimeColumn(data))

\* sorted(treatment_data['time'].unique())
SortedTimes(data) == Sorted(Unique(TimeColumn(data)))

\* len(treatment_data)
NumPatients(data) == Len(data)

\* treatment_data[treatment_data['time'] >= t]
PatientsAtTimeT(data, t) == SelectSeq(data, LAMBDA r : r.time >= t)

\* sum(patients_at_time_t['infected'])
RECURSIVE SumInfected(_)
SumInfected(data) ==
    IF data = <<>> THEN 0 ELSE Head(data).infected + SumInfected(Tail(data))

\* A mutant of NumEventsAtTimeT: only the rows strictly after t are counted.
NumEventsAfterT(data, t) == SumInfected(SelectSeq(data, LAMBDA r : r.time > t))

NumEventsAtTimeT(data, t) == SumInfected(PatientsAtTimeT(data, t))

\* A mutant of NextCumulativeProb: the sum is assigned, not accumulated.
NextCumulativeProbReset(cp, data, t, n) == RatDiv(NumEventsAtTimeT(data, t), n)

\* cumulative_prob += num_events_at_time_t / num_patients
NextCumulativeProb(cp, data, t, n) ==
    RatAdd(cp, RatDiv(NumEventsAtTimeT(data, t), n))

\* A mutant of NewFigure: the figure of the previous call is reused.
NewFigureReused(ret) == IF ret = <<>> THEN <<>> ELSE ret[Len(ret)]

\* go.Figure(): a figure without traces.
NewFigure(ret) == <<>>

\* The last two figures returned.
LastTwo(s) == IF Len(s) <= 2 THEN s ELSE SubSeq(s, Len(s) - 1, Len(s))

\* The curve update_cumulative_incidence_curve computes for treatment g of table d.
RECURSIVE IncidenceFrom(_, _, _, _)
IncidenceFrom(cp, data, ts, n) ==
    IF ts = <<>> THEN <<>>
    ELSE LET c == NextCumulativeProb(cp, data, Head(ts), n)
         IN <<c>> \o IncidenceFrom(c, data, Tail(ts), n)

CurveOf(d, g) ==
    LET data == FilterTrt(d, g)
    IN [name |-> g,
        x |-> SortedTimes(data),
        y |-> IncidenceFrom(Zero, data, SortedTimes(data), NumPatients(data))]

----------------------------------------------------------------------------
\* update_cumulative_incidence_curve

Locals ==
    /\ groups = <<>>
    /\ treatment = 0
    /\ treatment_data = <<>>
    /\ sorted_times = <<>>
    /\ cumulative_incidence = <<>>
    /\ num_patients = 0
    /\ cumulative_prob = Zero
    /\ ti = 1

Init ==
    /\ df \in Inputs
    /\ pc = "idle"
    /\ returned = <<>>
    /\ fig = <<>>
    /\ Locals
    /\ P = One
    /\ survival = <<>>

\* Lines 59-63: the call, the new figure and the list of treatments.
Call ==
    /\ pc = "idle"
    /\ fig' = NewFigure(returned)
    /\ groups' = TrtUnique(df)
    /\ pc' = "for_treatment"
    /\ UNCHANGED <<df, returned, treatment, treatment_data, sorted_times,
                   cumulative_incidence, num_patients, cumulative_prob, ti,
                   P, survival>>

\* Lines 63-70: the next treatment and the set-up of its loop.
NextTreatment ==
    /\ pc = "for_treatment"
    /\ groups # <<>>
    /\ treatment' = Head(groups)
    /\ groups' = Tail(groups)
    /\ treatment_data' = FilterTrt(df, Head(groups))
    /\ sorted_times' = SortedTimes(treatment_data')
    /\ cumulative_incidence' = <<>>
    /\ num_patients' = NumPatients(treatment_data')
    /\ cumulative_prob' = Zero
    /\ ti' = 1
    /\ pc' = "for_t"
    /\ UNCHANGED <<df, returned, fig, P, survival>>

\* Lines 71-76: one time point. A zero denominator raises ZeroDivisionError.
TimeStep ==
    /\ pc = "for_t"
    /\ ti <= Len(sorted_times)
    /\ IF num_patients = 0
       THEN /\ pc' = "raised"
            /\ UNCHANGED <<cumulative_prob, cumulative_incidence, ti>>
       ELSE /\ cumulative_prob' = NextCumulativeProb(cumulative_prob, treatment_data,
                                                     sorted_times[ti], num_patients)
            /\ cumulative_incidence' = Append(cumulative_incidence, cumulative_prob')
            /\ ti' = ti + 1
            /\ pc' = pc
    /\ UNCHANGED <<df, returned, fig, groups, treatment, treatment_data,
                   sorted_times, num_patients, P, survival>>

\* Lines 79-84: the trace of the treatment is added to the figure.
AddTrace ==
    /\ pc = "for_t"
    /\ ti > Len(sorted_times)
    /\ fig' = Append(fig, [name |-> treatment, x |-> sorted_times,
                           y |-> cumulative_incidence])
    /\ pc' = "for_treatment"
    /\ UNCHANGED <<df, returned, groups, treatment, treatment_data, sorted_times,
                   cumulative_incidence, num_patients, cumulative_prob, ti,
                   P, survival>>

\* Lines 86-91: the figure is returned; the locals are gone.
Return ==
    /\ pc = "for_treatment"
    /\ groups = <<>>
    /\ returned' = LastTwo(Append(returned, fig))
    /\ fig' = <<>>
    /\ groups' = <<>>
    /\ treatment' = 0
    /\ treatment_data' = <<>>
    /\ sorted_times' = <<>>
    /\ cumulative_incidence' = <<>>
    /\ num_patients' = 0
    /\ cumulative_prob' = Zero
    /\ ti' = 1
    /\ pc' = "idle"
    /\ UNCHANGED <<df, P, survival>>

Next == Call \/ NextTreatment \/ TimeStep \/ AddTrace \/ Return

Spec == Init /\ [][Next]_vars

----------------------------------------------------------------------------
\* compute_survival_curve, as the specification states it (section 4.1): the
\* observations are the rows of df, whose group the operation does not read.

SurvTables == {d \in Inputs : \A i \in DOMAIN d : d[i].trt = 0}

\* count of observations with time >= t
AtRisk(obs, t) == Len(SelectSeq(obs, LAMBDA r : r.time >= t))

\* A mutant of Events: the events at exactly t are counted.
EventsAtT(obs, t) == Len(SelectSeq(obs, LAMBDA r : r.time = t /\ r.infected = 1))

\* count of observations with time >= t and event true
Events(obs, t) == Len(SelectSeq(obs, LAMBDA r : r.time >= t /\ r.infected = 1))

\* P <- P * (1 - events / at_risk)
NextP(p, obs, t) == RatMul(p, RatSub(One, RatDiv(Events(obs, t), AtRisk(obs, t))))

SurvInit ==
    /\ df \in SurvTables
    /\ pc = "surv_idle"
    /\ returned = <<>>
    /\ fig = <<>>
    /\ Locals
    /\ P = One
    /\ survival = <<>>

\* T = the distinct times ascending, P = 1.0, an empty output.
SurvCall ==
    /\ pc = "surv_idle"
    /\ sorted_times' = SortedTimes(df)
    /\ P' = One
    /\ survival' = <<>>
    /\ ti' = 1
    /\ pc' = "surv_for_t"
    /\ UNCHANGED <<df, returned, fig, groups, treatment, treatment_data,
                   cumulative_incidence, num_patients, cumulative_prob>>

\* One time point: DivisionByZero when at_risk is 0, else P is updated and
\* (t, P) appended.
SurvStep ==
    /\ pc = "surv_for_t"
    /\ ti <= Len(sorted_times)
    /\ IF AtRisk(df, sorted_times[ti]) = 0
       THEN /\ pc' = "raised"
            /\ UNCHANGED <<P, survival, ti>>
       ELSE /\ P' = NextP(P, df, sorted_times[ti])
            /\ survival' = Append(survival, [time |-> sorted_times[ti], prob |-> P'])
            /\ ti' = ti + 1
            /\ pc' = pc
    /\ UNCHANGED <<df, returned, fig, groups, treatment, treatment_data,
                   sorted_times, cumulative_incidence, num_patients,
                   cumulative_prob>>

\* The output is returned.
SurvReturn ==
    /\ pc = "surv_for_t"
    /\ ti > Len(sorted_times)
    /\ sorted_times' = <<>>
    /\ ti' = 1
    /\ pc' = "surv_idle"
    /\ UNCHANGED <<df, returned, fig, groups, treatment, treatment_data,
                   cumulative_incidence, num_patients, cumulative_prob,
                   P, survival>>

SurvNext == SurvCall \/ SurvStep \/ SurvReturn

SurvSpec == SurvInit /\ [][SurvNext]_vars

----------------------------------------------------------------------------
\* What the properties speak of, stated on df itself.

\* The rows of group g, by position in df.
OwnIdx(g) == {i \in DOMAIN df : df[i].trt = g}
OwnTimes(g) == {df[i].time : i \in OwnIdx(g)}
GroupSize(g) == Cardinality(OwnIdx(g))

\* The k-th smallest distinct time of group g.
KthTime(g, k) == CHOOSE t \in OwnTimes(g) : Cardinality({u \in OwnTimes(g) : u <= t}) = k

\* Number of observations of g with time >= t and infected = 1.
EventsFrom(g, t) ==
    Cardinality({i \in OwnIdx(g) : df[i].time >= t /\ df[i].infected = 1})

RECURSIVE SumEvents(_, _)
SumEvents(g, ts) ==
    IF ts = {} THEN 0
    ELSE LET t == CHOOSE u \in ts : TRUE
         IN EventsFrom(g, t) + SumEvents(g, ts \ {t})

\* Sum over the distinct times t_j <= t of EventsFrom(g, t_j), divided by n.
ExpectedIncidence(g, t) ==
    RatDiv(SumEvents(g, {u \in OwnTimes(g) : u <= t}), GroupSize(g))

\* The table made of the rows of group g alone, in the order of df.
RECURSIVE OwnRows(_, _)
OwnRows(d, g) ==
    IF d = <<>> THEN <<>>
    ELSE IF Head(d).trt = g THEN <<Head(d)>> \o OwnRows(Tail(d), g)
    ELSE OwnRows(Tail(d), g)

\* Every reordering of the rows of df.
Reorderings ==
    {[i \in DOMAIN df |-> df[f[i]]] : f \in Permutations(DOMAIN df)}

\* Every trace produced so far: those of the figure under construction and
\* those of the figures returned.
Traces ==
    {fig[i] : i \in DOMAIN fig}
        \cup UNION {{returned[c][i] : i \in DOMAIN returned[c]} : c \in DOMAIN returned}

\* The trace the function has just added to the figure. Every trace of a
\* figure, returned or not, is at one time the trace just added.
JustAdded == IF pc = "for_treatment" /\ fig # <<>> THEN {fig[Len(fig)]} ELSE {}

\* Scenario 1 and 2 of the specification, with group A as treatment 0.
Scenario ==
    << [trt |-> 0, time |-> 1, infected |-> 1],
       [trt |-> 0, time |-> 2, infected |-> 0],
       [trt |-> 0, time |-> 3, infected |-> 1] >>

----------------------------------------------------------------------------
\* Properties. Those of the curves are stated of each curve in the state that
\* follows its addition to the figure.

\* C1: the value emitted at the k-th distinct time t_k of a group is the sum,
\* over the distinct times t_j <= t_k, of the number of the group's observations
\* with time >= t_j and infected = 1, divided by n, the number of observations
\* of the group, which stays the same during the loop.
C1_RunningSum ==
    /\ pc = "for_t" =>
          /\ num_patients = GroupSize(treatment)
          /\ Len(cumulative_incidence) = ti - 1
          /\ \A k \in DOMAIN cumulative_incidence :
                cumulative_incidence[k] = ExpectedIncidence(treatment, KthTime(treatment, k))
    /\ \A tr \in JustAdded :
          /\ Len(tr.y) = Cardinality(OwnTimes(tr.name))
          /\ \A k \in DOMAIN tr.y :
                tr.y[k] = ExpectedIncidence(tr.name, KthTime(tr.name, k))

\* A returned curve of two or more points whose running sum has grown.
C1_Witness ==
    /\ returned # <<>>
    /\ \E tr \in Traces : Len(tr.y) >= 2 /\ tr.y[2] # tr.y[1] /\ tr.y[1] # Zero

\* C2: the values of a curve are non-decreasing.
C2_NonDecreasing ==
    /\ \A k \in 1..(Len(cumulative_incidence) - 1) :
          RatLeq(cumulative_incidence[k], cumulative_incidence[k + 1])
    /\ \A tr \in JustAdded :
          \A k \in 1..(Len(tr.y) - 1) : RatLeq(tr.y[k], tr.y[k + 1])

\* A returned curve of three points, the last above the first.
C2_Witness ==
    /\ returned # <<>>
    /\ \E tr \in Traces : Len(tr.y) = 3 /\ ~RatLeq(tr.y[3], tr.y[1])

\* C3: the times of a curve are the distinct times of its group, strictly
\* increasing, and the curve has one value per time.
C3_DistinctTimes ==
    \A tr \in JustAdded :
        /\ {tr.x[k] : k \in DOMAIN tr.x} = OwnTimes(tr.name)
        /\ \A k \in 1..(Len(tr.x) - 1) : tr.x[k] < tr.x[k + 1]
        /\ Len(tr.y) = Len(tr.x)

\* A returned curve of a group that has a repeated time and whose rows are not
\* in time order.
C3_Witness ==
    /\ returned # <<>>
    /\ \E tr \in Traces :
          /\ Len(tr.x) = 2
          /\ GroupSize(tr.name) = 3
          /\ \E i, j \in OwnIdx(tr.name) : i < j /\ df[i].time > df[j].time

\* C4: for the three observations of the scenario the curve is 1/3, 1/3, 2/3.
C4_ScenarioIncidence ==
    (df = Scenario /\ returned # <<>>) =>
        returned[1][1].y = <<RatDiv(1, 3), RatDiv(1, 3), RatDiv(2, 3)>>

\* C5: every value of every curve lies in [0, 1].
C5_UnitInterval ==
    \A tr \in Traces :
        \A k \in DOMAIN tr.y : RatLeq(Zero, tr.y[k]) /\ RatLeq(tr.y[k], One)

\* C6: two calls in succession on the same table return the same figure.
C6_SameOutputTwice ==
    Len(returned) = 2 => returned[1] = returned[2]

\* Two calls have returned, each a figure with a curve that is not flat.
C6_Witness ==
    /\ Len(returned) = 2
    /\ returned[2] # <<>>
    /\ \E i \in DOMAIN returned[2] :
          LET y == returned[2][i].y IN Len(y) >= 2 /\ y[1] # y[Len(y)]

\* C7: the curve of every group is the one computed from any reordering of
\* the rows of the table.
C7_RowOrder ==
    \A tr \in JustAdded : \A p \in Reorderings : CurveOf(p, tr.name) = tr

\* A returned curve of a table whose rows are in descending time order.
C7_Witness ==
    /\ returned # <<>>
    /\ Len(df) = 3
    /\ \A i \in 1..2 : df[i].time > df[i + 1].time
    /\ \E tr \in Traces : Len(tr.x) >= 2

\* C9: a returned figure has one curve per distinct group of the table, and
\* the curve of a group is the one computed from the group's rows alone.
C9_OwnRowsOnly ==
    /\ \A c \in DOMAIN returned :
          /\ Len(returned[c]) = Cardinality({df[i].trt : i \in DOMAIN df})
          /\ \A i, j \in DOMAIN returned[c] :
                returned[c][i].name = returned[c][j].name => i = j
    /\ \A tr \in JustAdded :
          /\ OwnIdx(tr.name) # {}
          /\ tr = CurveOf(OwnRows(df, tr.name), tr.name)

\* A returned figure of two curves, of a table where the rows of the groups
\* interleave.
C9_Witness ==
    /\ returned # <<>>
    /\ Len(returned[1]) = 2
    /\ Len(df) = 3
    /\ df[1].trt = df[3].trt
    /\ df[2].trt # df[1].trt

\* C10: no group without observations is processed, and the denominator is at
\* least 1 whenever the division is executed.
C10_Denominator ==
    /\ pc = "for_t" => treatment_data # <<>>
    /\ (pc = "for_t" /\ ti <= Len(sorted_times)) => num_patients >= 1
    /\ pc # "raised"

\* The division has been executed with the smallest denominator.
C10_Witness ==
    pc = "for_t" /\ ti = 2 /\ num_patients = 1

\* C8: on the observations of the scenario the survival curve is 2/3, 2/3, 0.
C8_ScenarioSurvival ==
    (df = Scenario /\ pc = "surv_idle" /\ survival # <<>>) =>
        survival = << [time |-> 1, prob |-> RatDiv(2, 3)],
                      [time |-> 2, prob |-> RatDiv(2, 3)],
                      [time |-> 3, prob |-> Zero] >>

\* C8, as amended: on the observations of the scenario the stated algorithm
\* yields 1/3 at time 1, 1/6 at time 2 and 0 at time 3.
C8_ScenarioSurvivalAmended ==
    (df = Scenario /\ pc = "surv_idle" /\ survival # <<>>) =>
        survival = << [time |-> 1, prob |-> RatDiv(1, 3)],
                      [time |-> 2, prob |-> RatDiv(1, 6)],
                      [time |-> 3, prob |-> Zero] >>

\* The survival curve of the scenario has been returned.
C8_Witness ==
    df = Scenario /\ pc = "surv_idle" /\ Len(survival) = 3

====
